---- MODULE Spec2Model ----
(***************************************************************************)
(* Model of the Core Keeper ocarina tools:                                 *)
(*   ocarina_player.py    song text parser and playback scheduler          *)
(*   musicxml_to_song.py  duration encoder, transpose and fold helpers     *)
(*                                                                         *)
(* Times are exact: the scheduler's seconds are counted in ticks of        *)
(* 1/Scale millisecond, so that dur/rep is exact for every repeat count    *)
(* of the model.  Quarter-length durations of the codec are exact          *)
(* fractions <<numerator, denominator>>.                                   *)
(***************************************************************************)
EXTENDS Integers, Sequences, FiniteSets, TLC

\* ---------------------------------------------------------------- bounds
MaxEvents == 2      \* events in a song
MaxChord  == 3      \* atoms in one chord token
MaxRep    == 2      \* largest repeat count of an event

\* ------------------------------------------------------------- arithmetic
Max(a, b) == IF a >= b THEN a ELSE b
Min(a, b) == IF a <= b THEN a ELSE b

RECURSIVE Factorial(_)
Factorial(n) == IF n <= 1 THEN 1 ELSE n * Factorial(n - 1)

\* ticks per millisecond: every duration is a multiple of every repeat count
Scale == Factorial(MaxRep)
Ms(x) == x * Scale

\* ------------------------------------------------------- scheduler inputs
Pitches   == {"C4", "E4", "G4"}
AtomNames == Pitches \cup {"R"}
NoKey     == "None"

\* the note -> key table of mapping.json with every pitch present
FullMapping == ("C4" :> "q") @@ ("E4" :> "w") @@ ("G4" :> "e")
\* mapping.json may lack any of the notes
Mappings == {[n \in S |-> FullMapping[n]] : S \in SUBSET Pitches}

Chords   == UNION {[1..n -> AtomNames] : n \in 1..MaxChord}
DurSet   == {Ms(5), Ms(20), Ms(250)}
HoldSet  == {Ms(5), Ms(50), Ms(120)}
StagSet  == {0, Ms(10)}
RepSet   == 0..MaxRep
Events   == [notes : Chords, dur : DurSet, hold : HoldSet,
             stagger : StagSet, rep : RepSet]
NoEvent  == [notes |-> <<"R">>, dur |-> 0, hold |-> 0, stagger |-> 0, rep |-> 0]

VARIABLES
    pc,         \* position of the scheduler in play / chord_play
    nEvents,    \* len(events)
    idx,        \* number of events taken from the list so far
    mapping,    \* the loaded mapping table
    ev,         \* the event being processed (the last one taken)
    mode,       \* how ev is handled: "rest", "missing", "played", "none"
    keys,       \* keys resolved for ev, in chord order
    slotI,      \* i of "for i in range(rep)"
    ki,         \* position in the press loop or in the release loop
    used_hold,  \* used_hold of the current slot
    slotSum,    \* sum over finished slots of used_hold + rest
    acts,       \* actuator calls made for ev, in order
    slept,      \* total time slept while processing ev
    held,       \* keys that are down
    trace,      \* actuator calls and sleeps made for ev, in order
    \* --- duration codec round trip (musicxml_to_song.py -> ocarina_player.py)
    cpc,        \* "off", "value", "encoded", "decoded", "reencoded"
    cval,       \* the quarter-length Fraction given to fraction_to_spec
    cspec,      \* what fraction_to_spec(cval) returned or raised
    cdec,       \* what parse_duration returned or raised on that specifier
    cspec2,     \* what fraction_to_spec returned or raised on the decoded value
    \* --- one note token of parse_song
    ppc,        \* "off", "token", "appended", "raised"
    tokDur,     \* the token's dur group (text after ':'), "" when absent
    tokDots,    \* number of dots of the token
    events,     \* durations of the events appended so far
    \* --- one call of fold_into_range
    fpc,        \* "off", "call", "returned", "raised"
    fmidi,      \* the pitch number given
    fbounds,    \* the bounds given: <<low, high>>, or NoBounds for None
    fres,       \* what the call returned or raised
    \* --- one call of choose_transpose
    tpc,        \* "off", "call", "scan", "return", "returned"
    tpiece,     \* piece_midis, as a set
    tmap,       \* mapping_midis, as a set
    tmanual,    \* manual: <<>> for None, <<n>> for n
    tshift,     \* shift of "for shift in range(-60, 61)"
    best_shift,     \* <<>> for None, <<n>> for n
    best_penalty,   \* <<>> for None, <<n>> for n
    tres,       \* the value returned
    \* --- one note name converted
    npc,        \* "off", "start", "named", "done"
    nin,        \* <<"midi", m>> or <<"raw", text, default_oct>>
    nname,      \* the name midi_to_note_name or norm_note produced
    nres,       \* what note_name_to_midi made of that name
    \* --- one call of parse_song
    spc,        \* "off", "header", "first_body", "body", "tokens", "returned", "raised"
    state,      \* the header state dict
    line,       \* the line last read, as it was written
    tokens,     \* the tokens of that line still to process
    tokI,       \* position in the line of the first of them
    song,       \* the events list
    inBody,     \* the header phase of line 80 is over
    lineEv,     \* len(events) when the line was read
    toksLeft,   \* tokens the rest of the file may hold
    linesLeft,  \* lines the rest of the file may hold
    serr,       \* the exception that ended parse_song
    \* --- one call of extract_events
    epc,        \* "off", "elements", "intervals", "returned", "raised"
    semitone_shift,
    fold_bounds,
    elemsLeft,  \* elements the stream still holds
    seen,       \* the notes and rests taken from the stream so far
    changes,    \* time -> [add, remove]
    timepoints,
    folded,
    ordered_times,
    eidx,       \* idx of the second loop
    active,     \* the Counter of sounding pitches
    underflow,  \* a count of active went below zero
    score_events    \* the events list

playVars  == <<pc, nEvents, idx, mapping, ev, mode, keys, slotI, ki,
               used_hold, slotSum, acts, slept, held, trace>>
codecVars == <<cpc, cval, cspec, cdec, cspec2>>
tokVars   == <<ppc, tokDur, tokDots, events>>
foldVars  == <<fpc, fmidi, fbounds, fres>>
transVars == <<tpc, tpiece, tmap, tmanual, tshift, best_shift, best_penalty, tres>>
nameVars == <<npc, nin, nname, nres>>
parseVars == <<spc, state, line, tokens, tokI, song, inBody, lineEv, toksLeft, linesLeft, serr>>
extractVars == <<epc, semitone_shift, fold_bounds, elemsLeft, seen, changes, timepoints, folded, ordered_times, eidx, active, underflow, score_events>>
vars      == <<playVars, codecVars, tokVars, foldVars, transVars, nameVars, parseVars, extractVars>>

\* the variables each part of the model leaves alone
notPlayVars  == <<codecVars, tokVars, foldVars, transVars, nameVars, parseVars, extractVars>>
notCodecVars == <<playVars, tokVars, foldVars, transVars, nameVars, parseVars, extractVars>>
notTokVars   == <<playVars, codecVars, foldVars, transVars, nameVars, parseVars, extractVars>>
notFoldVars  == <<playVars, codecVars, tokVars, transVars, nameVars, parseVars, extractVars>>
notTransVars == <<playVars, codecVars, tokVars, foldVars, nameVars, parseVars, extractVars>>
notNameVars == <<playVars, codecVars, tokVars, foldVars, transVars, parseVars, extractVars>>
notParseVars == <<playVars, codecVars, tokVars, foldVars, transVars, nameVars, extractVars>>
notExtractVars == <<playVars, codecVars, tokVars, foldVars, transVars, nameVars, parseVars>>

\* Python's None
None == <<>>

TransOff ==
    /\ tpc = "off"
    /\ tpiece = {}
    /\ tmap = {}
    /\ tmanual = None
    /\ tshift = 0
    /\ best_shift = None
    /\ best_penalty = None
    /\ tres = 0

\* ------------------------------------------------------ play: pure parts
\* mapping.get(n)
MapGet(m, n) == IF n \in DOMAIN m THEN m[n] ELSE NoKey

\* lines 145-151: keys of the mapped notes, in chord order, R skipped
RECURSIVE ResolveKeys(_, _)
ResolveKeys(notes, m) ==
    IF notes = <<>> THEN <<>>
    ELSE LET n == Head(notes)
             rest == ResolveKeys(Tail(notes), m)
         IN  IF n = "R" THEN rest
             ELSE IF MapGet(m, n) = NoKey THEN rest
             ELSE <<MapGet(m, n)>> \o rest

\* lines 146-151: notes without a mapping, in chord order, R skipped
MissingNotesNone(notes, m) == <<>>
MissingNotesWithR(notes, m) == SelectSeq(notes, LAMBDA n : MapGet(m, n) = NoKey)
RECURSIVE MissingNotes(_, _)
MissingNotes(notes, m) ==
    IF notes = <<>> THEN <<>>
    ELSE LET n == Head(notes)
             rest == MissingNotes(Tail(notes), m)
         IN  IF n = "R" THEN rest
             ELSE IF MapGet(m, n) = NoKey THEN <<n>> \o rest
             ELSE rest

\* line 142: rep = max(1, ev["rep"])
RepOf(e) == Max(1, e.rep)
\* line 155: slot = dur/rep
SlotOf(e) == e.dur \div RepOf(e)
\* line 157: used_hold = min(hold, max(0.01, slot-0.02))
UsedHoldNoSlack(e) == Min(e.hold, Max(Ms(10), SlotOf(e)))
UsedHold(e) == Min(e.hold, Max(Ms(10), SlotOf(e) - Ms(20)))
\* line 159: rest = max(0.0, slot - used_hold)
RestOf(e, uh) == Max(0, SlotOf(e) - uh)
\* line 127: time.sleep(max(0.01, hold))
HoldSleep(h) == Max(Ms(10), h)
\* line 129: reversed(keys)
ReversedSame(s) == s
ReversedLast(s) == [i \in 1..Len(s) |-> s[Len(s)]]
Reversed(s) == [i \in 1..Len(s) |-> s[Len(s) + 1 - i]]

Sleeping == {"rest", "stagger_down", "hold", "stagger_up", "remainder"}

\* what the scheduler does to the outside: pyautogui.keyDown(k),
\* pyautogui.keyUp(k), time.sleep(t)
Down(k)  == [op |-> "down", key |-> k, t |-> 0]
Up(k)    == [op |-> "up", key |-> k, t |-> 0]
Sleep(t) == [op |-> "sleep", key |-> "", t |-> t]

\* ------------------------------------------------------------ play: steps
PlayInit ==
    /\ pc = "fetch"
    /\ nEvents \in 1..MaxEvents
    /\ idx = 0
    /\ mapping \in Mappings
    /\ ev = NoEvent
    /\ mode = "none"
    /\ keys = <<>>
    /\ slotI = 0
    /\ ki = 0
    /\ used_hold = 0
    /\ slotSum = 0
    /\ acts = <<>>
    /\ slept = 0
    /\ held = {}
    /\ trace = <<>>

\* lines 156-158: top of one repeat slot, up to the first call of chord_play
\* that suspends or presses
EnterSlot(e, ks, i) ==
    /\ slotI' = i
    /\ used_hold' = UsedHold(e)
    /\ ki' = 1
    /\ pc' = IF ks = <<>> THEN "hold" ELSE "down"

\* end of one slot: next iteration of range(rep), or the next event
LeaveSlot ==
    IF slotI + 1 < RepOf(ev)
    THEN EnterSlot(ev, keys, slotI + 1)
    ELSE /\ pc' = "event_end"
         /\ UNCHANGED <<slotI, used_hold, ki>>

\* lines 141-155 (and 161): take the next event and decide how to handle it
Fetch ==
    /\ UNCHANGED notPlayVars
    /\ pc = "fetch"
    /\ \/ /\ idx = nEvents
          /\ pc' = "done"
          /\ UNCHANGED <<nEvents, idx, mapping, ev, mode, keys, slotI, ki,
                         used_hold, slotSum, acts, slept, held, trace>>
       \/ /\ idx < nEvents
          /\ \E e \in Events :
                /\ ev' = e
                /\ idx' = idx + 1
                /\ acts' = <<>>
                /\ trace' = <<>>
                /\ slept' = 0
                /\ slotSum' = 0
                /\ IF e.notes = <<"R">>
                   THEN /\ mode' = "rest"
                        /\ keys' = <<>>
                        /\ pc' = "rest"
                        /\ UNCHANGED <<slotI, ki, used_hold>>
                   ELSE IF MissingNotes(e.notes, mapping) # <<>>
                   THEN /\ mode' = "missing"
                        /\ keys' = ResolveKeys(e.notes, mapping)
                        /\ pc' = "rest"
                        /\ UNCHANGED <<slotI, ki, used_hold>>
                   ELSE /\ mode' = "played"
                        /\ keys' = ResolveKeys(e.notes, mapping)
                        /\ EnterSlot(e, ResolveKeys(e.notes, mapping), 0)
          /\ UNCHANGED <<nEvents, mapping, held>>

\* line 141: back edge of "for ev in events"; the finished event's locals and
\* the per-event bookkeeping are dead from here on
NextEvent ==
    /\ UNCHANGED notPlayVars
    /\ pc = "event_end"
    /\ pc' = "fetch"
    /\ ev' = NoEvent
    /\ mode' = "none"
    /\ keys' = <<>>
    /\ slotI' = 0
    /\ ki' = 0
    /\ used_hold' = 0
    /\ slotSum' = 0
    /\ acts' = <<>>
    /\ trace' = <<>>
    /\ slept' = 0
    /\ UNCHANGED <<nEvents, idx, mapping, held>>

\* lines 144 and 153: time.sleep(dur) returns
WakeRest ==
    /\ UNCHANGED notPlayVars
    /\ pc = "rest"
    /\ slept' = slept + ev.dur
    /\ trace' = Append(trace, Sleep(ev.dur))
    /\ pc' = "event_end"
    /\ UNCHANGED <<nEvents, idx, mapping, ev, mode, keys, slotI, ki,
                   used_hold, slotSum, acts, held>>

\* lines 123-125: pyautogui.keyDown(k), then the stagger decision
KeyDown ==
    /\ UNCHANGED notPlayVars
    /\ pc = "down"
    /\ held' = held \cup {keys[ki]}
    /\ acts' = Append(acts, <<"down", keys[ki]>>)
    /\ trace' = Append(trace, Down(keys[ki]))
    /\ IF ev.stagger > 0 /\ ki < Len(keys)
       THEN pc' = "stagger_down" /\ ki' = ki
       ELSE IF ki < Len(keys)
       THEN pc' = "down" /\ ki' = ki + 1
       ELSE pc' = "hold" /\ ki' = ki
    /\ UNCHANGED <<nEvents, idx, mapping, ev, mode, keys, slotI,
                   used_hold, slotSum, slept>>

\* line 125: time.sleep(stagger) returns
WakeStaggerDown ==
    /\ UNCHANGED notPlayVars
    /\ pc = "stagger_down"
    /\ slept' = slept + ev.stagger
    /\ trace' = Append(trace, Sleep(ev.stagger))
    /\ ki' = ki + 1
    /\ pc' = "down"
    /\ UNCHANGED <<nEvents, idx, mapping, ev, mode, keys, slotI,
                   used_hold, slotSum, acts, held>>

\* line 127: time.sleep(max(0.01, hold)) returns
WakeHold ==
    /\ UNCHANGED notPlayVars
    /\ pc = "hold"
    /\ slept' = slept + HoldSleep(used_hold)
    /\ trace' = Append(trace, Sleep(HoldSleep(used_hold)))
    /\ ki' = 1
    /\ pc' = IF keys = <<>> THEN "after_chord" ELSE "up"
    /\ UNCHANGED <<nEvents, idx, mapping, ev, mode, keys, slotI,
                   used_hold, slotSum, acts, held>>

\* lines 129-131: pyautogui.keyUp(k), then the stagger decision
KeyUp ==
    /\ UNCHANGED notPlayVars
    /\ pc = "up"
    /\ held' = held \ {Reversed(keys)[ki]}
    /\ acts' = Append(acts, <<"up", Reversed(keys)[ki]>>)
    /\ trace' = Append(trace, Up(Reversed(keys)[ki]))
    /\ IF ev.stagger > 0 /\ ki < Len(keys)
       THEN pc' = "stagger_up" /\ ki' = ki
       ELSE IF ki < Len(keys)
       THEN pc' = "up" /\ ki' = ki + 1
       ELSE pc' = "after_chord" /\ ki' = ki
    /\ UNCHANGED <<nEvents, idx, mapping, ev, mode, keys, slotI,
                   used_hold, slotSum, slept>>

\* line 131: time.sleep(stagger) returns
WakeStaggerUp ==
    /\ UNCHANGED notPlayVars
    /\ pc = "stagger_up"
    /\ slept' = slept + ev.stagger
    /\ trace' = Append(trace, Sleep(ev.stagger))
    /\ ki' = ki + 1
    /\ pc' = "up"
    /\ UNCHANGED <<nEvents, idx, mapping, ev, mode, keys, slotI,
                   used_hold, slotSum, acts, held>>

\* lines 159-160: chord_play has returned; rest of the slot
SlotRest ==
    /\ UNCHANGED notPlayVars
    /\ pc = "after_chord"
    /\ slotSum' = slotSum + used_hold + RestOf(ev, used_hold)
    /\ UNCHANGED trace
    /\ IF RestOf(ev, used_hold) > 0
       THEN /\ pc' = "remainder"
            /\ UNCHANGED <<slotI, used_hold, ki>>
       ELSE LeaveSlot
    /\ UNCHANGED <<nEvents, idx, mapping, ev, mode, keys, acts, slept, held>>

\* line 160: time.sleep(rest) returns
WakeRemainder ==
    /\ UNCHANGED notPlayVars
    /\ pc = "remainder"
    /\ slept' = slept + RestOf(ev, used_hold)
    /\ trace' = Append(trace, Sleep(RestOf(ev, used_hold)))
    /\ LeaveSlot
    /\ UNCHANGED <<nEvents, idx, mapping, ev, mode, keys, slotSum, acts, held>>

\* lines 170-173: KeyboardInterrupt raised inside a time.sleep; it unwinds
\* chord_play and play (neither has a handler or a finally) and main prints
\* "Aborted."
Abort ==
    /\ UNCHANGED notPlayVars
    /\ pc \in Sleeping
    /\ pc' = "aborted"
    /\ UNCHANGED trace
    /\ UNCHANGED <<nEvents, idx, mapping, ev, mode, keys, slotI, ki,
                   used_hold, slotSum, acts, slept, held>>

PlayNext ==
    \/ Fetch
    \/ NextEvent
    \/ WakeRest
    \/ KeyDown
    \/ WakeStaggerDown
    \/ WakeHold
    \/ KeyUp
    \/ WakeStaggerUp
    \/ SlotRest
    \/ WakeRemainder
    \/ Abort

\* ------------------------------------------------------------- fractions
RECURSIVE GCD(_, _)
GCD(a, b) == IF b = 0 THEN a ELSE GCD(b, a % b)

\* fractions.Fraction(n, d), d > 0: lowest terms
Frac(n, d) ==
    LET g == GCD(IF n < 0 THEN -n ELSE n, d)
    IN  IF g = 0 THEN <<0, 1>> ELSE <<n \div g, d \div g>>

\* n/d for integers n and d # 0 of either sign
FracDiv(n, d) == IF d < 0 THEN Frac(-n, -d) ELSE Frac(n, d)

FracAdd(a, b) == Frac(a[1] * b[2] + b[1] * a[2], a[2] * b[2])
FracSub(a, b) == Frac(a[1] * b[2] - b[1] * a[2], a[2] * b[2])
FracMul(a, b) == Frac(a[1] * b[1], a[2] * b[2])
FracGeq(a, b) == a[1] * b[2] >= b[1] * a[2]
Abs(x) == IF x < 0 THEN -x ELSE x
\* |a - f| <= |b - f|
CloserOrEqual(a, b, f) ==
    Abs(a[1] * f[2] - f[1] * a[2]) * b[2] <= Abs(b[1] * f[2] - f[1] * b[2]) * a[2]

\* the continued-fraction loop of Fraction.limit_denominator
RECURSIVE ConvergentLoop(_, _, _, _, _, _, _)
ConvergentLoop(p0, q0, p1, q1, n, d, maxd) ==
    LET a  == n \div d
        q2 == q0 + a * q1
    IN  IF q2 > maxd THEN <<p0, q0, p1, q1>>
        ELSE ConvergentLoop(p1, q1, p0 + a * p1, q2, d, n - a * d, maxd)

\* Fraction.limit_denominator(maxd) for a fraction f >= 0: the closest
\* fraction to f with denominator at most maxd
LimitDenominator(f, maxd) ==
    IF f[2] <= maxd THEN f
    ELSE LET c == ConvergentLoop(0, 1, 1, 0, f[1], f[2], maxd)
             k == (maxd - c[2]) \div c[4]
             bound1 == Frac(c[1] + k * c[3], c[2] + k * c[4])
             bound2 == Frac(c[3], c[4])
         IN  IF CloserOrEqual(bound2, bound1, f) THEN bound2 ELSE bound1

\* ---------------------------------------------------------------- strings
\* a string is a sequence of one-character strings
DigitChars == <<"0", "1", "2", "3", "4", "5", "6", "7", "8", "9">>

\* str(n) for n >= 0
RECURSIVE Str(_)
Str(n) == IF n < 10 THEN <<DigitChars[n + 1]>>
          ELSE Str(n \div 10) \o <<DigitChars[(n % 10) + 1]>>

DigitValue(c) == CHOOSE v \in 0..9 : DigitChars[v + 1] = c

\* int(p) for a string of decimal digits; the empty string has no value
RECURSIVE IntOf(_)
IntOf(p) == IF Len(p) = 1 THEN DigitValue(p[1])
            ELSE 10 * IntOf(SubSeq(p, 1, Len(p) - 1)) + DigitValue(p[Len(p)])

\* "+".join(parts)
RECURSIVE JoinPlus(_)
JoinPlus(parts) ==
    IF parts = <<>> THEN <<>>
    ELSE IF Len(parts) = 1 THEN parts[1]
    ELSE parts[1] \o <<"+">> \o JoinPlus(Tail(parts))

\* spec.split('+'): the pieces between the '+' signs, empty pieces included
RECURSIVE SplitPlusFrom(_, _)
SplitPlusFrom(str, cur) ==
    IF str = <<>> THEN <<cur>>
    ELSE IF Head(str) = "+" THEN <<cur>> \o SplitPlusFrom(Tail(str), <<>>)
    ELSE SplitPlusFrom(Tail(str), Append(cur, Head(str)))
SplitPlus(str) == SplitPlusFrom(str, <<>>)

\* ------------------------------------------- musicxml_to_song.py: encoder
POW2_DENOMS_Reversed == <<64, 32, 16, 8, 4, 2, 1>>
POW2_DENOMS == <<1, 2, 4, 8, 16, 32, 64>>

Raised(e) == [ok |-> FALSE, err |-> e]
Returned(v) == [ok |-> TRUE, val |-> v]
Nothing == [ok |-> FALSE, err |-> "not run"]

\* lines 144-148: the greedy loop, from the i-th denominator on
RECURSIVE GreedyParts(_, _, _)
GreedyParts(remaining, i, parts) ==
    IF i > Len(POW2_DENOMS) THEN <<remaining, parts>>
    ELSE LET denom == POW2_DENOMS[i]
             part  == Frac(4, denom)
         IN  IF FracGeq(remaining, part)
             THEN GreedyParts(FracSub(remaining, part), i, Append(parts, Str(denom)))
             ELSE GreedyParts(remaining, i + 1, parts)

\* lines 139-151
fraction_to_spec(value) ==
    LET remaining == LimitDenominator(value, 64)
        r == GreedyParts(remaining, 1, <<>>)
    IN  IF r[1][1] # 0 THEN Raised("ValueError")
        ELSE Returned(JoinPlus(r[2]))

\* ---------------------------------------- ocarina_player.py: parse_duration
\* line 54: q*(4.0/int(p)) for a term with a value
TermSecondsNoFour(q, n) == FracMul(q, Frac(1, n))
TermSeconds(q, n) == FracMul(q, Frac(4, n))

\* line 54: the loop over spec.split('+'), from the i-th piece on
RECURSIVE SumTerms(_, _, _, _)
SumTerms(pieces, i, q, total) ==
    IF i > Len(pieces) THEN Returned(total)
    ELSE IF pieces[i] = <<>> THEN Raised("ValueError")
    ELSE IF IntOf(pieces[i]) = 0 THEN Raised("ZeroDivisionError")
    ELSE SumTerms(pieces, i + 1, q, FracAdd(total, TermSeconds(q, IntOf(pieces[i]))))

\* line 55: total *= 1.5, dots times
RECURSIVE Dotted(_, _)
Dotted(total, dots) ==
    IF dots = 0 THEN total ELSE Dotted(FracMul(total, <<3, 2>>), dots - 1)

\* lines 50-56
parse_duration(spec, unit, q, dots) ==
    IF spec = <<>>
    THEN IF unit = 0 THEN Raised("ZeroDivisionError")
         ELSE Returned(Dotted(FracMul(q, FracDiv(4, unit)), dots))
    ELSE LET r == SumTerms(SplitPlus(spec), 1, q, <<0, 1>>)
         IN  IF r.ok THEN Returned(Dotted(r.val, dots)) ELSE r

\* line 78: the header state parse_song starts with
DefaultUnit == 8

\* ------------------------------------------------- codec round trip: steps
MaxNum == 12        \* largest numerator of an encoded quarter length
DenSet == {1, 2, 3, 4, 8, 16, 64, 129}

PlayOff ==
    /\ pc = "off"
    /\ nEvents = 0
    /\ idx = 0
    /\ mapping = FullMapping
    /\ ev = NoEvent
    /\ mode = "none"
    /\ keys = <<>>
    /\ slotI = 0
    /\ ki = 0
    /\ used_hold = 0
    /\ slotSum = 0
    /\ acts = <<>>
    /\ slept = 0
    /\ held = {}
    /\ trace = <<>>

CodecOff ==
    /\ cpc = "off"
    /\ cval = <<0, 1>>
    /\ cspec = Nothing
    /\ cdec = Nothing
    /\ cspec2 = Nothing

TokOff ==
    /\ ppc = "off"
    /\ tokDur = <<>>
    /\ tokDots = 0
    /\ events = <<>>

NoBounds == <<>>

FoldOff ==
    /\ fpc = "off"
    /\ fmidi = 0
    /\ fbounds = NoBounds
    /\ fres = Nothing

NameOff ==
    /\ npc = "off"
    /\ nin = <<>>
    /\ nname = Nothing
    /\ nres = Nothing

\* a dict or Counter with no key
EmptyDict == [x \in {} |-> 0]

ExtractOff ==
    /\ epc = "off"
    /\ semitone_shift = 0
    /\ fold_bounds = NoBounds
    /\ elemsLeft = 0
    /\ seen = <<>>
    /\ changes = EmptyDict
    /\ timepoints = {}
    /\ folded = 0
    /\ ordered_times = <<>>
    /\ eidx = 0
    /\ active = EmptyDict
    /\ underflow = FALSE
    /\ score_events = <<>>

NoLine == [toks |-> <<>>, sep |-> " "]

ParseOff ==
    /\ spc = "off"
    /\ state = <<>>
    /\ line = NoLine
    /\ tokens = <<>>
    /\ tokI = 0
    /\ song = <<>>
    /\ inBody = FALSE
    /\ lineEv = 0
    /\ toksLeft = 0
    /\ linesLeft = 0
    /\ serr = ""

CodecInit ==
    /\ cpc = "value"
    /\ cval \in {Frac(n, d) : n \in 1..MaxNum, d \in DenSet}
    /\ cspec = Nothing
    /\ cdec = Nothing
    /\ cspec2 = Nothing

\* musicxml_to_song.py line 225: spec = fraction_to_spec(delta)
Encode ==
    /\ cpc = "value"
    /\ cspec' = fraction_to_spec(cval)
    /\ cpc' = IF fraction_to_spec(cval).ok THEN "encoded" ELSE "failed"
    /\ UNCHANGED <<cval, cdec, cspec2>>
    /\ UNCHANGED notCodecVars

\* ocarina_player.py line 105 on the written specifier, with the default
\* unit, one second per quarter (BPM=60) and no dots
Decode ==
    /\ cpc = "encoded"
    /\ cdec' = parse_duration(cspec.val, DefaultUnit, <<1, 1>>, 0)
    /\ cpc' = "decoded"
    /\ UNCHANGED <<cval, cspec, cspec2>>
    /\ UNCHANGED notCodecVars

\* encoding the decoded value again
Reencode ==
    /\ cpc = "decoded"
    /\ cdec.ok
    /\ cspec2' = fraction_to_spec(cdec.val)
    /\ cpc' = "reencoded"
    /\ UNCHANGED <<cval, cspec, cdec>>
    /\ UNCHANGED notCodecVars

CodecNext ==
    \/ Encode
    \/ Decode
    \/ Reencode

CodecSpecInit == PlayOff /\ CodecInit /\ TokOff /\ FoldOff /\ TransOff /\ NameOff /\ ParseOff /\ ExtractOff
SpecCodec == CodecSpecInit /\ [][CodecNext]_vars

\* ------------------------------------------------- one note token: steps
MaxSpecLen == 4     \* longest dur text of a token
MaxDots    == 1     \* most dots of a token

\* tok_re line 85: the dur group is one or more of the characters 0-9 and +
DurChars == {DigitChars[i] : i \in 1..10} \cup {"+"}
\* the dur group of a token that matched tok_re; "" when the group is absent
DurTexts == UNION {[1..n -> DurChars] : n \in 0..MaxSpecLen}

\* line 78: q of the default header state, 60.0/120
DefaultQ == <<1, 2>>

TokInit ==
    /\ ppc = "token"
    /\ tokDur \in DurTexts
    /\ tokDots \in 0..MaxDots
    /\ events = <<>>

\* parse_song lines 99-117 for a token that matched tok_re: parse_duration
\* either raises, which ends parse_song, or the event is appended
ParseToken ==
    /\ ppc = "token"
    /\ LET r == parse_duration(tokDur, DefaultUnit, DefaultQ, tokDots)
       IN  IF r.ok
           THEN /\ events' = Append(events, r.val)
                /\ ppc' = "appended"
           ELSE /\ events' = events
                /\ ppc' = "raised"
    /\ UNCHANGED <<tokDur, tokDots>>
    /\ UNCHANGED notTokVars

TokNext == ParseToken

TokSpecInit == PlayOff /\ CodecOff /\ TokInit /\ FoldOff /\ TransOff /\ NameOff /\ ParseOff /\ ExtractOff
SpecToken == TokSpecInit /\ [][TokNext]_vars


\* ------------------------------------- musicxml_to_song.py: fold_into_range
MaxSpan  == 14      \* the mapping bounds range over LowBase..LowBase+MaxSpan
LowBase  == 58
MaxMidi  == 127

\* lines 162-164: while adjusted < low: adjusted += 12
RECURSIVE FoldUp(_, _)
FoldUp(adjusted, low) ==
    IF adjusted < low THEN FoldUp(adjusted + 12, low) ELSE adjusted

\* lines 165-167: while adjusted > high: adjusted -= 12
RECURSIVE FoldDown(_, _)
FoldDown(adjusted, high) ==
    IF adjusted > high THEN FoldDown(adjusted - 12, high) ELSE adjusted

\* lines 154-170; the result is <<adjusted, changed>>
fold_into_range(midi, bounds) ==
    IF bounds = NoBounds THEN Returned(<<midi, FALSE>>)
    ELSE LET low  == bounds[1]
             high == bounds[2]
             up   == FoldUp(midi, low)
             adjusted == FoldDown(up, high)
             changed  == midi < low \/ up > high
         IN  IF low > high THEN Raised("ValueError")
             ELSE IF ~(0 <= adjusted /\ adjusted <= MaxMidi) THEN Raised("ValueError")
             ELSE Returned(<<adjusted, changed>>)

\* bounds as convert builds them from a mapping (line 269), and as a caller
\* of the function may give them, low > high included
BoundPitches == {0, 2} \cup (LowBase..(LowBase + MaxSpan)) \cup {126, 130}

FoldInit ==
    /\ fpc = "call"
    /\ fmidi \in 0..MaxMidi
    /\ fbounds \in {NoBounds} \cup (BoundPitches \X BoundPitches)
    /\ fres = Nothing

\* line 201: midi, changed = fold_into_range(midi, fold_bounds)
Fold ==
    /\ fpc = "call"
    /\ fres' = fold_into_range(fmidi, fbounds)
    /\ fpc' = IF fold_into_range(fmidi, fbounds).ok THEN "returned" ELSE "raised"
    /\ UNCHANGED <<fmidi, fbounds>>
    /\ UNCHANGED notFoldVars

FoldNext == Fold

FoldSpecInit == PlayOff /\ CodecOff /\ TokOff /\ FoldInit /\ TransOff /\ NameOff /\ ParseOff /\ ExtractOff
SpecFold == FoldSpecInit /\ [][FoldNext]_vars

\* ------------------------------------------------------------ note names
MaxOct == 9         \* largest octave number written in a raw note name

\* musicxml_to_song.py lines 18-31
SEMITONE_NAMES == <<
    <<"C">>, <<"C", "#">>, <<"D">>, <<"D", "#">>, <<"E">>, <<"F">>,
    <<"F", "#">>, <<"G">>, <<"G", "#">>, <<"A">>, <<"A", "#">>, <<"B">> >>

LetterChars == {"A", "B", "C", "D", "E", "F", "G",
                "a", "b", "c", "d", "e", "f", "g"}

IsDigit(c) == \E i \in 1..10 : DigitChars[i] = c

\* c.upper() for one character
LowerChars == <<"a", "b", "c", "d", "e", "f", "g", "h", "i", "j", "k", "l", "m",
                "n", "o", "p", "q", "r", "s", "t", "u", "v", "w", "x", "y", "z">>
UpperChars == <<"A", "B", "C", "D", "E", "F", "G", "H", "I", "J", "K", "L", "M",
                "N", "O", "P", "Q", "R", "S", "T", "U", "V", "W", "X", "Y", "Z">>
UpperChar(c) ==
    IF \E i \in 1..26 : LowerChars[i] = c
    THEN UpperChars[CHOOSE i \in 1..26 : LowerChars[i] = c]
    ELSE c

Upper(t) == [i \in 1..Len(t) |-> UpperChar(t[i])]

\* t.strip()
RECURSIVE Strip(_)
Strip(t) ==
    IF t = <<>> THEN t
    ELSE IF t[1] = " " THEN Strip(Tail(t))
    ELSE IF t[Len(t)] = " " THEN Strip(SubSeq(t, 1, Len(t) - 1))
    ELSE t

\* str(n) for any integer n
StrInt(n) == IF n < 0 THEN <<"-">> \o Str(-n) ELSE Str(n)

\* dict.get(key, default) for a dict written as a set of <<key, value>>
DictGet(dict, key, default) ==
    IF \E kv \in dict : kv[1] = key
    THEN (CHOOSE kv \in dict : kv[1] = key)[2]
    ELSE default

\* ^([A-Ga-g])([#b]?)(\d*)$ and, with needDigit, ^([A-Ga-g])([#b]?)(\d+)$
NoMatch == [ok |-> FALSE]
MatchNote(t, needDigit) ==
    IF t = <<>> \/ t[1] \notin LetterChars THEN NoMatch
    ELSE LET hasAcc == Len(t) >= 2 /\ t[2] \in {"#", "b"}
             acc    == IF hasAcc THEN <<t[2]>> ELSE <<>>
             octv   == SubSeq(t, IF hasAcc THEN 3 ELSE 2, Len(t))
         IN  IF /\ \A i \in 1..Len(octv) : IsDigit(octv[i])
                /\ needDigit => octv # <<>>
             THEN [ok |-> TRUE, letter |-> t[1], acc |-> acc, octv |-> octv]
             ELSE NoMatch

\* musicxml_to_song.py lines 45-53
enharmonic == {
    <<<<"C", "B">>, <<"B">>>>,      <<<<"D", "B">>, <<"C", "#">>>>,
    <<<<"E", "B">>, <<"D", "#">>>>, <<<<"F", "B">>, <<"E">>>>,
    <<<<"G", "B">>, <<"F", "#">>>>, <<<<"A", "B">>, <<"G", "#">>>>,
    <<<<"B", "B">>, <<"A", "#">>>> }

\* musicxml_to_song.py lines 55-68
SemitoneOf == {<<SEMITONE_NAMES[i], <<i - 1>>>> : i \in 1..12}

\* musicxml_to_song.py lines 36-73
note_name_to_midi(name) ==
    LET match == MatchNote(Strip(name), TRUE)
    IN  IF ~match.ok THEN Raised("ValueError")
        ELSE LET letter == <<UpperChar(match.letter)>>
                 octave == IntOf(match.octv)
                 key0   == letter \o Upper(match.acc)
                 key    == IF key0[Len(key0)] = "B" /\ Len(key0) = 2
                           THEN DictGet(enharmonic, key0, letter)
                           ELSE key0
                 semitone == DictGet(SemitoneOf, key, None)
             IN  IF semitone = None THEN Raised("ValueError")
                 ELSE Returned(12 * (octave + 1) + semitone[1])

\* musicxml_to_song.py lines 76-81
midi_to_note_name(midi) ==
    LET octave == (midi \div 12) - 1
        semitone == midi % 12
    IN  SEMITONE_NAMES[semitone + 1] \o StrInt(octave)

\* ocarina_player.py line 24
ENHARMONIC == {
    <<<<"D", "B">>, <<"C", "#">>>>, <<<<"E", "B">>, <<"D", "#">>>>,
    <<<<"G", "B">>, <<"F", "#">>>>, <<<<"A", "B">>, <<"G", "#">>>>,
    <<<<"B", "B">>, <<"A", "#">>>>, <<<<"E", "#">>, <<"F">>>>,
    <<<<"B", "#">>, <<"C">>>> }

\* ocarina_player.py lines 26-38
norm_note(raw, default_oct) ==
    LET t == Strip(raw)
    IN  IF Upper(t) = <<"R">> THEN Returned(<<"R">>)
        ELSE LET m == MatchNote(t, FALSE)
             IN  IF ~m.ok THEN Raised("ValueError")
                 ELSE LET name == <<UpperChar(m.letter)>>
                          key  == Upper(name \o <<"B">>)
                          s    == DictGet(ENHARMONIC, key, None)
                          nameacc == IF m.acc = <<"b">>
                                     THEN IF s # None THEN <<s[1], "#">>
                                          ELSE name
                                     ELSE name \o m.acc
                          octave == IF m.octv # <<>> THEN IntOf(m.octv)
                                    ELSE default_oct
                      IN  Returned(nameacc \o StrInt(octave))

\* lane_oct of parse_song, line 82
LaneOctaves == {4, 5}

OctTexts == {<<>>} \cup {Str(n) : n \in 0..MaxOct}
RawNames ==
    {<<l>> \o a \o o : l \in LetterChars, a \in {<<>>, <<"#">>, <<"b">>},
                       o \in OctTexts}
        \cup {<<"R">>, <<"r">>, <<"H", "4">>, <<"C", "#", "#", "4">>,
              <<" ", "D", "b", "4", " ">>, <<"C", "-", "1">>}

NameInit ==
    /\ npc = "start"
    /\ nin \in {<<"midi", m>> : m \in 0..MaxMidi}
                \cup {<<"raw", t, d>> : t \in RawNames, d \in LaneOctaves}
    /\ nname = Nothing
    /\ nres = Nothing

\* the converter names a pitch number
MidiToName ==
    /\ npc = "start"
    /\ nin[1] = "midi"
    /\ nname' = Returned(midi_to_note_name(nin[2]))
    /\ npc' = "named"
    /\ UNCHANGED <<nin, nres>>
    /\ UNCHANGED notNameVars

\* the player reads a note atom
NormNote ==
    /\ npc = "start"
    /\ nin[1] = "raw"
    /\ nname' = norm_note(nin[2], nin[3])
    /\ npc' = IF nname'.ok THEN "named" ELSE "done"
    /\ UNCHANGED <<nin, nres>>
    /\ UNCHANGED notNameVars

\* the name is read back as a pitch number
NameToMidi ==
    /\ npc = "named"
    /\ nres' = note_name_to_midi(nname.val)
    /\ npc' = "done"
    /\ UNCHANGED <<nin, nname>>
    /\ UNCHANGED notNameVars

NameNext ==
    \/ MidiToName
    \/ NormNote
    \/ NameToMidi

NameSpecInit == PlayOff /\ CodecOff /\ TokOff /\ FoldOff /\ TransOff /\ NameInit /\ ParseOff /\ ExtractOff
SpecNames == NameSpecInit /\ [][NameNext]_vars

\* --------------------------------------------- ocarina_player.py: parsing
StartsWith(t, prefix) ==
    Len(t) >= Len(prefix) /\ SubSeq(t, 1, Len(prefix)) = prefix

\* the first index from i on whose character is not in S; Len(t) + 1 if none
SkipChars(t, i, S) ==
    CHOOSE j \in i..(Len(t) + 1) :
        /\ \A k \in i..(j - 1) : t[k] \in S
        /\ j = Len(t) + 1 \/ t[j] \notin S

DigitSet == {DigitChars[i] : i \in 1..10}

\* t.split(c)
RECURSIVE SplitChar(_, _)
SplitChar(t, c) ==
    LET j == SkipChars(t, 1, {x \in {t[k] : k \in 1..Len(t)} : x # c})
    IN  IF j > Len(t) THEN <<t>>
        ELSE <<SubSeq(t, 1, j - 1)>> \o SplitChar(SubSeq(t, j + 1, Len(t)), c)

\* t.split("=", 1)[1]
AfterEquals(t) ==
    LET j == SkipChars(t, 1, {x \in {t[k] : k \in 1..Len(t)} : x # "="})
    IN  SubSeq(t, j + 1, Len(t))

\* the sign and the rest of a stripped number text
IsNegative(t) == t # <<>> /\ t[1] = "-"
Unsigned(t) == IF t # <<>> /\ t[1] \in {"+", "-"} THEN Tail(t) ELSE t
Signed(neg, v) == IF neg THEN -v ELSE v
NatOf(digits) == IF digits = <<>> THEN 0 ELSE IntOf(digits)

IntFrom(neg, digits) ==
    IF digits = <<>> \/ \E i \in 1..Len(digits) : ~IsDigit(digits[i])
    THEN Raised("ValueError")
    ELSE Returned(Signed(neg, IntOf(digits)))

IntOfStripped(t) == IntFrom(IsNegative(t), Unsigned(t))

\* int(t) of a text: surrounding blanks, an optional sign, decimal digits
\* (digit separators "_" do not occur in the texts drawn here)
ParseInt(t) == IntOfStripped(Strip(t))

RECURSIVE Pow10(_)
Pow10(n) == IF n = 0 THEN 1 ELSE 10 * Pow10(n - 1)

FloatValue(neg, whole, frac) ==
    IF \/ \E i \in 1..Len(frac) : ~IsDigit(frac[i])
       \/ whole = <<>> /\ frac = <<>>
    THEN Raised("ValueError")
    ELSE Returned(<<Signed(neg, NatOf(whole) * Pow10(Len(frac)) + NatOf(frac)),
                    Pow10(Len(frac))>>)

\* body is digits up to p - 1; a point and more digits may follow
FloatParts(neg, body, p) ==
    IF p = Len(body) + 1 THEN FloatValue(neg, body, <<>>)
    ELSE IF body[p] = "."
    THEN FloatValue(neg, SubSeq(body, 1, p - 1), SubSeq(body, p + 1, Len(body)))
    ELSE Raised("ValueError")

FloatFrom(neg, body) == FloatParts(neg, body, SkipChars(body, 1, DigitSet))

FloatOfStripped(t) == FloatFrom(IsNegative(t), Unsigned(t))

\* the decimal fraction n/d in lowest terms
Lowest(r) == IF r.ok THEN Returned(Frac(r.val[1], r.val[2])) ELSE r

\* float(t) of a text: surrounding blanks, an optional sign, digits with an
\* optional point; the value is kept exact (exponents, inf and nan do not
\* occur in the texts drawn here)
ParseFloat(t) == Lowest(FloatOfStripped(Strip(t)))

Txt_BPM     == <<"B", "P", "M", "=">>
Txt_TEMPO   == <<"T", "E", "M", "P", "O", "=">>
Txt_UNIT    == <<"U", "N", "I", "T", "=">>
Txt_HOLD    == <<"H", "O", "L", "D", "=">>
Txt_STAGGER == <<"S", "T", "A", "G", "G", "E", "R", "=">>
Txt_REP     == <<"R", "E", "P", "=">>
Txt_LOW     == <<"L", "O", "W">>
Txt_HIGH    == <<"H", "I", "G", "H">>

\* line 78: the header state parse_song starts with
DefaultState ==
    [bpm |-> 120, q |-> <<1, 2>>, unit |-> 8, lane |-> "LOW",
     hold |-> <<3, 25>>, stagger |-> <<1, 125>>, rep |-> 1]

\* the outcome of parse_header: the value returned and the state it leaves
HeaderResult(b, st) == Returned([ret |-> b, state |-> st])

\* lines 42-47: the key an upper-cased line or token starts with
HeaderKey(upper) ==
    IF StartsWith(upper, Txt_BPM) \/ StartsWith(upper, Txt_TEMPO) THEN "bpm"
    ELSE IF StartsWith(upper, Txt_UNIT) THEN "unit"
    ELSE IF StartsWith(upper, Txt_HOLD) THEN "hold"
    ELSE IF StartsWith(upper, Txt_STAGGER) THEN "stagger"
    ELSE IF StartsWith(upper, Txt_REP) THEN "rep"
    ELSE "none"

\* lines 43, 44 and 47: the keys whose value is read with int()
HeaderInt(key, v, st) ==
    IF ~v.ok THEN v
    ELSE IF key = "bpm"
    THEN IF v.val = 0 THEN Raised("ZeroDivisionError")
         ELSE HeaderResult(TRUE, [st EXCEPT !.bpm = v.val, !.q = FracDiv(60, v.val)])
    ELSE IF key = "unit" THEN HeaderResult(TRUE, [st EXCEPT !.unit = v.val])
    ELSE HeaderResult(TRUE, [st EXCEPT !.rep = v.val])

\* lines 45 and 46: the keys whose value is read with float()
HeaderFloat(key, v, st) ==
    IF ~v.ok THEN v
    ELSE IF key = "hold" THEN HeaderResult(TRUE, [st EXCEPT !.hold = v.val])
    ELSE HeaderResult(TRUE, [st EXCEPT !.stagger = v.val])

HeaderSet(key, text, st) ==
    IF key = "none" THEN HeaderResult(FALSE, st)
    ELSE IF key \in {"hold", "stagger"} THEN HeaderFloat(key, ParseFloat(text), st)
    ELSE HeaderInt(key, ParseInt(text), st)

HeaderOf(upper, st) == HeaderSet(HeaderKey(upper), AfterEquals(upper), st)

\* ocarina_player.py lines 40-48
parse_header(ln, st) == HeaderOf(Upper(Strip(ln)), st)

\* parse_attrs: the dict it builds; a key that is absent holds None
NoAttrs == [hold |-> None, stagger |-> None, rep |-> None]

AttrSet(out, key, v) ==
    IF ~v.ok THEN v ELSE Returned([out EXCEPT ![key] = <<v.val>>])

\* lines 68-71: one chunk, stripped
AttrOf(out, c) ==
    IF c = <<>> THEN Returned(out)
    ELSE IF StartsWith(c, <<"h">>)
    THEN AttrSet(out, "hold", ParseFloat(SubSeq(c, 2, Len(c))))
    ELSE IF StartsWith(c, <<"s", "t">>)
    THEN AttrSet(out, "stagger", ParseFloat(SubSeq(c, 3, Len(c))))
    ELSE IF StartsWith(c, <<"r", "e", "p">>)
    THEN AttrSet(out, "rep", ParseInt(SubSeq(c, 4, Len(c))))
    ELSE Returned(out)

\* lines 66-71: one chunk of the attribute list
AttrChunk(out, chunk) == AttrOf(out, Strip(chunk))

\* line 66: the loop over the chunks, from the i-th on
RECURSIVE AttrChunks(_, _, _)
AttrChunksNext(r, chunks, i) ==
    IF r.ok THEN AttrChunks(r.val, chunks, i + 1) ELSE r
AttrChunks(out, chunks, i) ==
    IF i > Len(chunks) THEN Returned(out)
    ELSE AttrChunksNext(AttrChunk(out, chunks[i]), chunks, i)

\* ocarina_player.py lines 59-72
parse_attrs(attr_str) ==
    IF attr_str = <<>> THEN Returned(NoAttrs)
    ELSE AttrChunks(NoAttrs, SplitChar(attr_str, ","), 1)

\* attr.get(key, default)
AttrGetDefaultOnly(found, default) == default
AttrGet(found, default) == IF found # None THEN found[1] ELSE default

\* tok_re, lines 83-88
AtomLetters == LetterChars \cup {"R"}

\* the index after one atom [A-Ga-gR](?:[#b]?\d*)? that starts at i
AtomEnd(t, i) ==
    LET j == IF i + 1 <= Len(t) /\ t[i + 1] \in {"#", "b"} THEN i + 2 ELSE i + 1
    IN  SkipChars(t, j, DigitSet)

\* the index after the notes group that starts at i; 0 if there is no atom
RECURSIVE NotesEnd(_, _)
NotesEnd(t, i) ==
    IF i > Len(t) \/ t[i] \notin AtomLetters THEN 0
    ELSE LET j == AtomEnd(t, i)
         IN  IF j + 1 <= Len(t) /\ t[j] = "+" /\ t[j + 1] \in AtomLetters
             THEN NotesEnd(t, j + 1)
             ELSE j

\* the groups of a match: notes end before n, dur before d, dots before e
TokGroups(t, n, d, e, attr) ==
    [ok |-> TRUE,
     notes |-> SubSeq(t, 1, n - 1),
     dur |-> SubSeq(t, n + 1, d - 1),
     dots |-> e - d,
     attr |-> attr]

\* (?P<attr>\([^)]*\))?$ at e, where close is the first ")" after e
MatchAttr(t, n, d, e, close) ==
    IF close = Len(t) THEN TokGroups(t, n, d, e, SubSeq(t, e + 1, close - 1))
    ELSE NoMatch

MatchTail(t, n, d, e) ==
    IF e = Len(t) + 1 THEN TokGroups(t, n, d, e, <<>>)
    ELSE IF t[e] = "("
    THEN MatchAttr(t, n, d, e,
                   SkipChars(t, e + 1, {x \in {t[k] : k \in 1..Len(t)} : x # ")"}))
    ELSE NoMatch

\* (?P<dots>\.*) at d
MatchDots(t, n, d) == MatchTail(t, n, d, SkipChars(t, d, {"."}))

\* (?::(?P<dur>[0-9+]+))? at n
MatchDur(t, n) ==
    IF n <= Len(t) /\ t[n] = ":"
    THEN IF n + 1 <= Len(t) /\ t[n + 1] \in DurChars
         THEN MatchDots(t, n, SkipChars(t, n + 1, DurChars))
         ELSE NoMatch
    ELSE MatchDots(t, n, n)

MatchNotes(t, n) == IF n = 0 THEN NoMatch ELSE MatchDur(t, n)

\* tok_re.match(t): the groups notes, dur, dots and attr
MatchTok(t) == MatchNotes(t, NotesEnd(t, 1))

\* line 92: line.replace("|", " ").replace(",", " ").split()
Blanked(t) == [i \in 1..Len(t) |-> IF t[i] \in {"|", ","} THEN " " ELSE t[i]]
RECURSIVE SplitBlanks(_)
SplitBlanks(t) ==
    LET a == SkipChars(t, 1, {" "})
        b == SkipChars(t, a, {x \in {t[k] : k \in 1..Len(t)} : x # " "})
    IN  IF a > Len(t) THEN <<>>
        ELSE <<SubSeq(t, a, b - 1)>> \o SplitBlanks(SubSeq(t, b, Len(t)))
Tokenize(t) == SplitBlanks(Blanked(t))

\* line 108: [norm_note(n, default_oct) for n in notespec.split('+')]
ConsResult(v, rest) == IF ~rest.ok THEN rest ELSE Returned(<<v>> \o rest.val)
RECURSIVE NormNotes(_, _, _)
NormNotesNext(r, atoms, i, default_oct) ==
    IF ~r.ok THEN r ELSE ConsResult(r.val, NormNotes(atoms, i + 1, default_oct))
NormNotes(atoms, i, default_oct) ==
    IF i > Len(atoms) THEN Returned(<<>>)
    ELSE NormNotesNext(norm_note(atoms[i], default_oct), atoms, i, default_oct)

\* line 82
lane_oct(lane) == IF lane = "LOW" THEN 4 ELSE 5

\* ------------------------------------------------ parse_song: the input
MaxToks  == 3       \* tokens in a song file
MaxLines == 2       \* lines in a song file

\* a token as the song's author writes it
Tok(kind, key, val, atoms, dur, dots, attrs) ==
    [kind |-> kind, key |-> key, val |-> val, atoms |-> atoms, dur |-> dur,
     dots |-> dots, attrs |-> attrs]
HeaderTok(key, val) == Tok("header", key, val, <<>>, <<>>, 0, <<>>)
LaneTok(key) == Tok("lane", key, <<>>, <<>>, <<>>, 0, <<>>)
NoteTok(atoms, dur, dots, attrs) == Tok("note", <<>>, <<>>, atoms, dur, dots, attrs)

RECURSIVE JoinWith(_, _)
JoinWith(parts, c) ==
    IF parts = <<>> THEN <<>>
    ELSE IF Len(parts) = 1 THEN parts[1]
    ELSE parts[1] \o <<c>> \o JoinWith(Tail(parts), c)

\* the text of a token: KEY=value, a lane name, or
\* notes[:dur][dots][(attributes)] as tok_re and parse_attrs describe it
Render(t) ==
    IF t.kind = "header" THEN t.key \o <<"=">> \o t.val
    ELSE IF t.kind = "lane" THEN t.key
    ELSE JoinWith(t.atoms, "+")
         \o (IF t.dur = <<>> THEN <<>> ELSE <<":">> \o t.dur)
         \o [i \in 1..t.dots |-> "."]
         \o (IF t.attrs = <<>> THEN <<>>
             ELSE <<"(">>
                  \o JoinWith([i \in 1..Len(t.attrs) |-> t.attrs[i][1] \o t.attrs[i][2]], ",")
                  \o <<")">>)

SongTokens == {
    HeaderTok(<<"t", "e", "m", "p", "o">>, <<"6", "0">>),
    HeaderTok(<<"U", "N", "I", "T">>, <<"4">>),
    HeaderTok(<<"H", "O", "L", "D">>, <<"0", ".", "2">>),
    HeaderTok(<<"S", "T", "A", "G", "G", "E", "R">>, <<"0">>),
    HeaderTok(<<"R", "E", "P">>, <<"2">>),
    HeaderTok(<<"R", "E", "P">>, <<"0">>),
    LaneTok(<<"H", "I", "G", "H">>),
    LaneTok(<<"l", "o", "w">>),
    NoteTok(<< <<"C">> >>, <<>>, 0, <<>>),
    NoteTok(<< <<"E", "b", "4">>, <<"R">> >>, <<"4">>, 1, <<>>),
    NoteTok(<< <<"G">> >>, <<>>, 0, << <<<<"r", "e", "p">>, <<"3">>>> >>),
    NoteTok(<< <<"A">> >>, <<"8", "+", "1", "6">>, 0, << <<<<"h">>, <<"0", ".", "3">>>> >>),
    NoteTok(<< <<"C">> >>, <<>>, 0, << <<<<"s", "t">>, <<"0", ".", "0", "2">>>> >>),
    NoteTok(<< <<"D">> >>, <<>>, 0,
            << <<<<"h">>, <<"0", ".", "2">>>>, <<<<"r", "e", "p">>, <<"0">>>> >>),
    NoteTok(<< <<"X">> >>, <<>>, 0, <<>>) }

\* the characters that separate the tokens of a line
Seps == {" ", "|", ","}

\* the lines of at most n tokens
LinesUpTo(n) ==
    {l \in [toks : UNION {[1..k -> SongTokens] : k \in 1..n}, sep : Seps] :
        Len(l.toks) = 1 => l.sep = " "}

LineText(l) == JoinWith([i \in 1..Len(l.toks) |-> Render(l.toks[i])], l.sep)

\* ------------------------------------------------ parse_song: the steps
ParseInit ==
    /\ spc = "header"
    /\ state = DefaultState
    /\ line = NoLine
    /\ tokens = <<>>
    /\ tokI = 0
    /\ song = <<>>
    /\ inBody = FALSE
    /\ lineEv = 0
    /\ toksLeft = MaxToks
    /\ linesLeft = MaxLines
    /\ serr = ""

\* parse_song raises
ParseRaise(e) ==
    /\ spc' = "raised"
    /\ serr' = e
    /\ UNCHANGED <<state, tokens, tokI, song>>

\* line 77: the file holds no line
EmptySong ==
    /\ spc = "header"
    /\ linesLeft = MaxLines
    /\ ParseRaise("ValueError")
    /\ UNCHANGED <<line, inBody, lineEv, toksLeft, linesLeft>>
    /\ UNCHANGED notParseVars

\* line 80: parse_header returned or raised r for the line
HeaderLineStep(r) ==
    IF ~r.ok THEN ParseRaise(r.err) /\ UNCHANGED inBody
    ELSE IF r.val.ret
    THEN /\ state' = r.val.state
         /\ spc' = "header"
         /\ UNCHANGED <<tokens, tokI, song, inBody, serr>>
    ELSE /\ spc' = "first_body"
         /\ inBody' = TRUE
         /\ UNCHANGED <<state, tokens, tokI, song, serr>>

\* line 80: one turn of the header loop, on the next line of the file
HeaderLine ==
    /\ spc = "header"
    /\ linesLeft >= 1
    /\ \E l \in LinesUpTo(toksLeft) :
        /\ line' = l
        /\ toksLeft' = toksLeft - Len(l.toks)
        /\ HeaderLineStep(parse_header(LineText(l), state))
    /\ linesLeft' = linesLeft - 1
    /\ lineEv' = Len(song)
    /\ UNCHANGED notParseVars

\* lines 90-92: parse_header returned or raised r for the line text
BodyLineStep(r, text) ==
    IF ~r.ok THEN ParseRaise(r.err)
    ELSE IF r.val.ret
    THEN /\ state' = r.val.state
         /\ spc' = "body"
         /\ UNCHANGED <<tokens, tokI, song, serr>>
    ELSE /\ tokens' = Tokenize(text)
         /\ tokI' = 1
         /\ spc' = IF tokens' = <<>> THEN "body" ELSE "tokens"
         /\ UNCHANGED <<state, song, serr>>

\* lines 89-92: the body loop takes the line with this text
BodyStep(text) == BodyLineStep(parse_header(text, state), text)

\* the line on which the header loop stopped is the first of the body
FirstBodyLine ==
    /\ spc = "first_body"
    /\ BodyStep(LineText(line))
    /\ UNCHANGED <<line, inBody, lineEv, toksLeft, linesLeft>>
    /\ UNCHANGED notParseVars

\* the body loop takes the next line of the file
BodyLine ==
    /\ spc = "body"
    /\ linesLeft >= 1
    /\ \E l \in LinesUpTo(toksLeft) :
        /\ line' = l
        /\ toksLeft' = toksLeft - Len(l.toks)
        /\ BodyStep(LineText(l))
    /\ linesLeft' = linesLeft - 1
    /\ lineEv' = Len(song)
    /\ inBody' = TRUE
    /\ UNCHANGED notParseVars

\* lines 110-116: the event, or the first exception of lines 104-108
EventFrom(attr, dur, notes, st) ==
    IF ~attr.ok THEN attr
    ELSE IF ~dur.ok THEN dur
    ELSE IF ~notes.ok THEN notes
    ELSE Returned([notes |-> notes.val,
                   dur |-> dur.val,
                   hold |-> AttrGet(attr.val.hold, st.hold),
                   stagger |-> AttrGet(attr.val.stagger, st.stagger),
                   rep |-> AttrGet(attr.val.rep, st.rep)])

\* lines 99-117: the event of a token that matched tok_re, in state st
EventOf(m, st) ==
    EventFrom(parse_attrs(m.attr),
              parse_duration(m.dur, st.unit, st.q, m.dots),
              NormNotes(SplitChar(m.notes, "+"), 1, lane_oct(st.lane)),
              st)

\* continue: on to the next token of the line
GoOn ==
    /\ tokens' = Tail(tokens)
    /\ tokI' = tokI + 1
    /\ spc' = IF Tail(tokens) = <<>> THEN "body" ELSE "tokens"
    /\ UNCHANGED serr

\* line 98: parse_header(up, state) returned or raised r
HeaderTokenStep(r) ==
    IF r.ok THEN state' = r.val.state /\ GoOn /\ UNCHANGED song
    ELSE ParseRaise(r.err)

\* line 117: the event e is appended, or its exception ends parse_song
EventStep(e) ==
    IF ~e.ok THEN ParseRaise(e.err)
    ELSE song' = Append(song, e.val) /\ GoOn /\ UNCHANGED state

\* lines 99-117: tok_re.match gave m
NoteTokenStep(m) ==
    IF ~m.ok THEN ParseRaise("ValueError") ELSE EventStep(EventOf(m, state))

\* lines 94-117: the token whose upper-cased text is upper
TokenStep(upper) ==
    IF StartsWith(upper, Txt_LOW)
    THEN state' = [state EXCEPT !.lane = "LOW"] /\ GoOn /\ UNCHANGED song
    ELSE IF StartsWith(upper, Txt_HIGH)
    THEN state' = [state EXCEPT !.lane = "HIGH"] /\ GoOn /\ UNCHANGED song
    ELSE IF HeaderKey(upper) # "none"
    THEN HeaderTokenStep(parse_header(upper, state))
    ELSE NoteTokenStep(MatchTok(tokens[1]))

\* lines 93-117: one token
Token ==
    /\ spc = "tokens"
    /\ TokenStep(Upper(tokens[1]))
    /\ UNCHANGED <<line, inBody, lineEv, toksLeft, linesLeft>>
    /\ UNCHANGED notParseVars

\* line 118: the lines are used up
EndOfSong ==
    /\ spc \in {"header", "body"}
    /\ linesLeft < MaxLines
    /\ spc' = "returned"
    /\ UNCHANGED <<state, line, tokens, tokI, song, inBody, lineEv, toksLeft,
                   linesLeft, serr>>
    /\ UNCHANGED notParseVars

ParseNext ==
    \/ EmptySong
    \/ HeaderLine
    \/ FirstBodyLine
    \/ BodyLine
    \/ Token
    \/ EndOfSong

ParseSpecInit == PlayOff /\ CodecOff /\ TokOff /\ FoldOff /\ TransOff /\ NameOff /\ ParseInit /\ ExtractOff
SpecParse == ParseSpecInit /\ [][ParseNext]_vars

\* ------------------------------------ musicxml_to_song.py: extract_events
MaxElems == 2       \* notes, chords and rests in the stream

\* element.offset and element.duration.quarterLength, in quarter lengths
Offsets   == {<<0, 1>>, <<1, 2>>}
Durations == {<<0, 1>>, <<1, 2>>, <<7, 16>>, <<4, 9>>, <<1, 3>>}
\* the pitches of an element; none for a rest
PitchLists == {<<>>, <<60>>, <<67>>, <<60, 67>>, <<120>>}
Elements == [offset : Offsets, dur : Durations, pitches : PitchLists]
Shifts == {0, 12}
FoldBounds == {NoBounds, <<60, 71>>}

\* line 183: Fraction(value).limit_denominator(64)
to_fraction(value) == LimitDenominator(value, 64)

FracLess(a, b) == a[1] * b[2] < b[1] * a[2]

\* changes[t], a defaultdict entry
NoChange == [add |-> <<>>, remove |-> <<>>]
ChangesAt(ch, t) == IF t \in DOMAIN ch THEN ch[t] ELSE NoChange
DictPut(d, k, v) == [x \in DOMAIN d \cup {k} |-> IF x = k THEN v ELSE d[x]]

\* lines 204-205
WithNote(ch, start, end, midi) ==
    LET withAdd == DictPut(ch, start,
                       [ChangesAt(ch, start) EXCEPT !.add = Append(@, midi)])
    IN  DictPut(withAdd, end,
            [ChangesAt(withAdd, end) EXCEPT !.remove = Append(@, midi)])

\* lines 201-205: the pitch was folded to r, or fold_into_range raised
PitchFolded(acc, r, start, end) ==
    IF ~r.ok THEN r
    ELSE Returned([changes |-> WithNote(acc.changes, start, end, r.val[1]),
                   folded |-> IF r.val[2] THEN acc.folded + 1 ELSE acc.folded,
                   pitches |-> acc.pitches \cup {r.val[1]}])

\* lines 198-205: one pitch of the element, shifted to midi
PitchShifted(acc, midi, start, end, bounds) ==
    IF ~(0 <= midi /\ midi <= 127) THEN Raised("ValueError")
    ELSE PitchFolded(acc, fold_into_range(midi, bounds), start, end)

\* lines 196-205: the pitches of the element from the i-th on
RECURSIVE EachPitch(_, _, _, _, _, _, _)
EachPitchNext(r, pitches, i, start, end, shift, bounds) ==
    IF ~r.ok THEN r ELSE EachPitch(r.val, pitches, i + 1, start, end, shift, bounds)
EachPitch(acc, pitches, i, start, end, shift, bounds) ==
    IF i > Len(pitches) THEN Returned(acc)
    ELSE EachPitchNext(PitchShifted(acc, pitches[i] + shift, start, end, bounds),
                       pitches, i, start, end, shift, bounds)

ExtractInit ==
    /\ epc = "elements"
    /\ semitone_shift \in Shifts
    /\ fold_bounds \in FoldBounds
    /\ elemsLeft = MaxElems
    /\ seen = <<>>
    /\ changes = EmptyDict
    /\ timepoints = {<<0, 1>>}
    /\ folded = 0
    /\ ordered_times = <<>>
    /\ eidx = 0
    /\ active = EmptyDict
    /\ underflow = FALSE
    /\ score_events = <<>>

\* lines 196-205: the pitch loop of the element ended as r
ElementStep(r, start, end) ==
    IF ~r.ok
    THEN /\ epc' = "raised"
         /\ UNCHANGED <<changes, folded, seen>>
    ELSE /\ changes' = r.val.changes
         /\ folded' = r.val.folded
         /\ seen' = Append(seen, [start |-> start, end |-> end,
                                  pitches |-> r.val.pitches])
         /\ epc' = "elements"

\* lines 186-205 for an element that starts at start and lasts duration
ElementAt(e, start, duration) ==
    IF duration[1] = 0
    THEN UNCHANGED <<epc, changes, folded, seen, timepoints>>
    ELSE /\ timepoints' = timepoints \cup {start, FracAdd(start, duration)}
         /\ ElementStep(EachPitch([changes |-> changes, folded |-> folded,
                                   pitches |-> {}],
                                  e.pitches, 1, start, FracAdd(start, duration),
                                  semitone_shift, fold_bounds),
                        start, FracAdd(start, duration))

\* lines 185-205: one turn of the first loop, on the next element
Element ==
    /\ epc = "elements"
    /\ elemsLeft >= 1
    /\ \E e \in Elements : ElementAt(e, to_fraction(e.offset), to_fraction(e.dur))
    /\ elemsLeft' = elemsLeft - 1
    /\ UNCHANGED <<semitone_shift, fold_bounds, ordered_times, eidx, active,
                   underflow, score_events>>
    /\ UNCHANGED notExtractVars

\* sorted(S) for a set of fractions
RECURSIVE SortedTimes(_)
SortedTimes(S) ==
    IF S = {} THEN <<>>
    ELSE LET least == CHOOSE x \in S : \A y \in S : ~FracLess(y, x)
         IN  <<least>> \o SortedTimes(S \ {least})

\* lines 207-209: the stream is used up
SortTimes ==
    /\ epc = "elements"
    /\ ordered_times' = SortedTimes(timepoints)
    /\ eidx' = 0
    /\ epc' = "intervals"
    /\ UNCHANGED <<semitone_shift, fold_bounds, elemsLeft, seen, changes,
                   timepoints, folded, active, underflow, score_events>>
    /\ UNCHANGED notExtractVars

Count(c, midi) == IF midi \in DOMAIN c THEN c[midi] ELSE 0
DictDel(d, k) == [x \in DOMAIN d \ {k} |-> d[x]]

\* lines 218-220: active[midi] -= 1, and the key deleted at zero or below
Retire(c, midi) ==
    IF Count(c, midi) - 1 <= 0 THEN DictDel(c, midi)
    ELSE DictPut(c, midi, Count(c, midi) - 1)

\* lines 217-220: the removals from the i-th on; the second component tells
\* whether a count went below zero
RECURSIVE RetireAll(_, _, _, _)
RetireAll(c, low, removes, i) ==
    IF i > Len(removes) THEN <<c, low>>
    ELSE RetireAll(Retire(c, removes[i]), low \/ Count(c, removes[i]) - 1 < 0,
                   removes, i + 1)

\* lines 222-223
RECURSIVE StartAll(_, _, _)
StartAll(c, adds, i) ==
    IF i > Len(adds) THEN c
    ELSE StartAll(DictPut(c, adds[i], Count(c, adds[i]) + 1), adds, i + 1)

\* the order of str: by the code points of the characters
CharOrder == <<"#", "+", "-", "0", "1", "2", "3", "4", "5", "6", "7", "8", "9",
               "A", "B", "C", "D", "E", "F", "G">>
CharRank(c) == CHOOSE i \in 1..Len(CharOrder) : CharOrder[i] = c
RECURSIVE StrLess(_, _)
StrLess(a, b) ==
    IF b = <<>> THEN FALSE
    ELSE IF a = <<>> THEN TRUE
    ELSE IF a[1] # b[1] THEN CharRank(a[1]) < CharRank(b[1])
    ELSE StrLess(Tail(a), Tail(b))

\* sorted(S) for a set of strings
RECURSIVE SortedNames(_)
SortedNames(S) ==
    IF S = {} THEN <<>>
    ELSE LET least == CHOOSE x \in S : \A y \in S : ~StrLess(y, x)
         IN  <<least>> \o SortedNames(S \ {least})

\* lines 226-231: the event text
EventText(c, spec) ==
    IF DOMAIN c = {} THEN <<"R", ":">> \o spec
    ELSE JoinPlus(SortedNames({midi_to_note_name(midi) : midi \in DOMAIN c}))
         \o <<":">> \o spec

\* lines 225-231: fraction_to_spec returned or raised spec
IntervalStep(spec, c) ==
    IF ~spec.ok
    THEN /\ epc' = "raised"
         /\ UNCHANGED <<score_events, eidx>>
    ELSE /\ score_events' = Append(score_events, EventText(c, spec.val))
         /\ eidx' = eidx + 1
         /\ epc' = "intervals"

\* lines 217-225: the Counter after the removals r and the additions
IntervalCounted(r, adds, delta) ==
    /\ active' = StartAll(r[1], adds, 1)
    /\ underflow' = r[2]
    /\ IntervalStep(fraction_to_spec(delta), StartAll(r[1], adds, 1))

\* lines 211-231: one turn of the second loop, at ordered_times[idx]
Interval ==
    /\ epc = "intervals"
    /\ eidx + 1 < Len(ordered_times)
    /\ IntervalCounted(
           RetireAll(active, underflow,
                     ChangesAt(changes, ordered_times[eidx + 1]).remove, 1),
           ChangesAt(changes, ordered_times[eidx + 1]).add,
           FracSub(ordered_times[eidx + 2], ordered_times[eidx + 1]))
    /\ UNCHANGED <<semitone_shift, fold_bounds, elemsLeft, seen, changes,
                   timepoints, folded, ordered_times>>
    /\ UNCHANGED notExtractVars

\* line 233
ExtractReturn ==
    /\ epc = "intervals"
    /\ eidx + 1 >= Len(ordered_times)
    /\ epc' = "returned"
    /\ UNCHANGED <<semitone_shift, fold_bounds, elemsLeft, seen, changes,
                   timepoints, folded, ordered_times, eidx, active, underflow,
                   score_events>>
    /\ UNCHANGED notExtractVars

ExtractNext ==
    \/ Element
    \/ SortTimes
    \/ Interval
    \/ ExtractReturn

ExtractSpecInit == PlayOff /\ CodecOff /\ TokOff /\ FoldOff /\ TransOff /\ NameOff /\ ParseOff /\ ExtractInit
SpecExtract == ExtractSpecInit /\ [][ExtractNext]_vars

\* ------------------------------------ musicxml_to_song.py: choose_transpose
MaxNotes == 2       \* most distinct pitches of the piece and of the mapping
MaxShift == 60

PiecePitches == {0, 40, 60, 64, 72, 100, 127}
MapPitches   == {48, 60, 72, 84}
ManualSet    == {-3, 0, 70}

SetMin(S) == CHOOSE x \in S : \A y \in S : x <= y
SetMax(S) == CHOOSE x \in S : \A y \in S : x >= y

\* lines 124-128: penalty of a shift
Penalty(shift, min_piece, max_piece, min_map, max_map) ==
    LET new_min == min_piece + shift
        new_max == max_piece + shift
        under == Max(0, min_map - new_min)
        over  == Max(0, new_max - max_map)
    IN  under + over

\* lines 129-131: the condition under which the scanned shift replaces the best
BetterFirstOnly(penalty, shift, bp, bs) == bp = None \/ penalty < bp[1]
Better(penalty, shift, bp, bs) ==
    \/ bp = None
    \/ penalty < bp[1]
    \/ (penalty = bp[1] /\ bs # None /\ Abs(shift) < Abs(bs[1]))
    \/ (penalty = bp[1] /\ bs = None)

TransInit ==
    /\ tpc = "call"
    /\ tpiece \in {S \in SUBSET PiecePitches : Cardinality(S) <= MaxNotes}
    /\ tmap \in {S \in SUBSET MapPitches : Cardinality(S) <= MaxNotes}
    /\ tmanual \in {None} \cup {<<n>> : n \in ManualSet}
    /\ tshift = 0
    /\ best_shift = None
    /\ best_penalty = None
    /\ tres = 0

\* lines 111-122: the early returns, and the set-up of the scan
ChooseStart ==
    /\ tpc = "call"
    /\ IF tmanual # None
       THEN /\ tres' = tmanual[1]
            /\ tpc' = "returned"
            /\ UNCHANGED tshift
       ELSE IF tpiece = {} \/ tmap = {}
       THEN /\ tres' = 0
            /\ tpc' = "returned"
            /\ UNCHANGED tshift
       ELSE /\ tshift' = -MaxShift
            /\ tpc' = "scan"
            /\ UNCHANGED tres
    /\ UNCHANGED <<tpiece, tmap, tmanual, best_shift, best_penalty>>
    /\ UNCHANGED notTransVars

\* lines 123-135: one iteration of the scan
ChooseScan ==
    /\ tpc = "scan"
    /\ LET penalty == Penalty(tshift, SetMin(tpiece), SetMax(tpiece),
                              SetMin(tmap), SetMax(tmap))
           better == Better(penalty, tshift, best_penalty, best_shift)
       IN  /\ best_penalty' = IF better THEN <<penalty>> ELSE best_penalty
           /\ best_shift' = IF better THEN <<tshift>> ELSE best_shift
           /\ IF penalty = 0 /\ Abs(tshift) = 0
              THEN tpc' = "return" /\ UNCHANGED tshift
              ELSE IF tshift = MaxShift
              THEN tpc' = "return" /\ UNCHANGED tshift
              ELSE tpc' = "scan" /\ tshift' = tshift + 1
    /\ UNCHANGED <<tpiece, tmap, tmanual, tres>>
    /\ UNCHANGED notTransVars

\* line 136: return best_shift or 0
ChooseReturn ==
    /\ tpc = "return"
    /\ tres' = IF best_shift = None THEN 0 ELSE best_shift[1]
    /\ tpc' = "returned"
    /\ UNCHANGED <<tpiece, tmap, tmanual, tshift, best_shift, best_penalty>>
    /\ UNCHANGED notTransVars

TransNext ==
    \/ ChooseStart
    \/ ChooseScan
    \/ ChooseReturn

TransSpecInit == PlayOff /\ CodecOff /\ TokOff /\ FoldOff /\ TransInit /\ NameOff /\ ParseOff /\ ExtractOff
SpecTranspose == TransSpecInit /\ [][TransNext]_vars

Init == PlayInit /\ CodecOff /\ TokOff /\ FoldOff /\ TransOff /\ NameOff /\ ParseOff /\ ExtractOff
Next == PlayNext
Spec == Init /\ [][Next]_vars

\* ------------------------------------------------------- scheduler claims
IsPrefix(s, t) == Len(s) <= Len(t) /\ SubSeq(t, 1, Len(s)) = s

RECURSIVE Repeat(_, _)
Repeat(s, n) == IF n <= 0 THEN <<>> ELSE s \o Repeat(s, n - 1)

\* the non-rest atoms of a chord, in textual order
Sounding(notes) == SelectSeq(notes, LAMBDA n : n # "R")

\* actuator calls one slot of event e must make: one key-down per atom left
\* to right, then one key-up per atom right to left
SlotPattern(e, m) ==
    LET ns == Sounding(e.notes)
        k  == Len(ns)
    IN  [i \in 1..k |-> <<"down", MapGet(m, ns[i])>>]
        \o [i \in 1..k |-> <<"up", MapGet(m, ns[k + 1 - i])>>]

\* positions in e.notes of the pitches that have no entry in the table
Unmapped(e, m) ==
    {i \in DOMAIN e.notes : e.notes[i] # "R" /\ e.notes[i] \notin DOMAIN m}

\* an event is loaded, it is not a rest and all its notes are mapped
AllMapped == mode # "none" /\ ev.notes # <<"R">> /\ Unmapped(ev, mapping) = {}
\* an event is loaded, it is not a rest and some note of it is not mapped
SomeUnmapped == mode # "none" /\ ev.notes # <<"R">> /\ Unmapped(ev, mapping) # {}

\* C1: when the scheduler has exited, normally or by an abort delivered in a
\* sleep, no key is left held down.
C1_NoKeyHeldOnExit == pc \in {"done", "aborted"} => held = {}

\* C2: for an event whose notes are all mapped, the actuator calls are, slot
\* after slot, the key-downs in textual order followed by the key-ups in
\* reverse order; at every moment the calls made so far are a prefix of that
\* sequence and at the end of the event they are all of it.
C2_StrumOrder ==
    AllMapped =>
        /\ IsPrefix(acts, Repeat(SlotPattern(ev, mapping), RepOf(ev)))
        /\ pc = "event_end" =>
              acts = Repeat(SlotPattern(ev, mapping), RepOf(ev))

C2_Witness ==
    /\ pc = "event_end"
    /\ mode = "played"
    /\ ev.notes = <<"C4", "E4", "G4">>
    /\ ev.rep = 2
    /\ Len(acts) = 12

\* the press, hold and release of one slot of the event fit within the slot
FitsInSlot(e, ks) ==
    2 * (IF e.stagger > 0 /\ Len(ks) > 0 THEN (Len(ks) - 1) * e.stagger ELSE 0)
        + HoldSleep(UsedHold(e)) <= SlotOf(e)

\* C3: the time slept while processing a played event whose press, hold and
\* release fit within the slot equals the event's duration.
C3_EventTimeIsDuration ==
    (pc = "event_end" /\ AllMapped /\ FitsInSlot(ev, keys))
        => slept = ev.dur

\* C4: for repeat count n >= 1 the n slots' used_hold + rest sum to the
\* duration and used_hold never exceeds slot - 0.02.
C4_SlotConservation ==
    (AllMapped /\ ev.rep >= 1) =>
        /\ used_hold <= SlotOf(ev) - Ms(20)
        /\ pc = "event_end" => slotSum = ev.dur

\* C4 (amended): the same, for slots of at least 0.03 s.
C4_SlotConservationLongSlot ==
    (AllMapped /\ ev.rep >= 1 /\ SlotOf(ev) >= Ms(30)) =>
        /\ used_hold <= SlotOf(ev) - Ms(20)
        /\ pc = "event_end" => slotSum = ev.dur

C4_Witness ==
    /\ pc = "event_end"
    /\ mode = "played"
    /\ ev.rep = 2
    /\ ev.dur = Ms(250)
    /\ ev.hold = Ms(120)
    /\ used_hold = Ms(105)

\* C5: an event with an unmapped note makes no actuator call (none for its
\* mapped notes either), is never inside chord_play, has slept exactly the
\* event's duration when it ends, raises nothing, and the loop then goes on
\* to the next event with the event counter kept.
C5_MissingState ==
    SomeUnmapped =>
        /\ acts = <<>>
        /\ held = {}
        /\ pc \in {"rest", "event_end", "aborted"}
        /\ pc = "rest" => slept = 0
        /\ pc = "event_end" => slept = ev.dur

C5_MissingMappingRests ==
    /\ []C5_MissingState
    /\ [][(SomeUnmapped /\ pc = "event_end")
            => (pc' = "fetch" /\ idx' = idx /\ held' = {})]_vars
    /\ [][(pc = "fetch" /\ idx < nEvents) => (pc' # "done" /\ idx' = idx + 1)]_vars

C5_Witness ==
    /\ pc = "event_end"
    /\ mode = "missing"
    /\ ev.notes = <<"E4", "G4">>
    /\ "E4" \in DOMAIN mapping
    /\ "G4" \notin DOMAIN mapping
    /\ idx < nEvents

\* ------------------------------------------------------------ codec claims
\* the note values a specifier term may name
NoteValues == {1, 2, 4, 8, 16, 32, 64}

\* v is a sum of one or more terms 4/d, d a note value: a positive multiple
\* of 1/16 (4/64), every larger term being a multiple of it
Representable(v) == v[1] > 0 /\ 16 % v[2] = 0
Sixteenths(v) == (v[1] * 16) \div v[2]

\* fewest terms 64/d (in sixteenths) that sum to k, for k = 1..Len(T) + m,
\* given the table T for 1..Len(T); built by dynamic programming over every
\* choice of a last term, in blocks that keep the recursion shallow
RECURSIVE ExtendTable(_, _)
ExtendTable(T, m) ==
    IF m = 0 THEN T
    ELSE LET P == ExtendTable(T, m - 1)
             n == Len(P) + 1
             cands == {1 + (IF 64 \div d = n THEN 0 ELSE P[n - 64 \div d]) :
                          d \in {x \in NoteValues : 64 \div x <= n}}
         IN  Append(P, CHOOSE c \in cands : \A o \in cands : c <= o)
MinTerms48  == ExtendTable(<<>>, 48)
MinTerms96  == ExtendTable(MinTerms48, 48)
MinTerms144 == ExtendTable(MinTerms96, 48)
MinTerms192 == ExtendTable(MinTerms144, 48)
MinTerms240 == ExtendTable(MinTerms192, 48)
MinTermsTable == MinTerms240

\* the denominators named by a specifier text
TermsOf(text) == [i \in 1..Len(SplitPlus(text)) |-> IntOf(SplitPlus(text)[i])]

\* C6: a representable duration encodes without error, decodes (one second per
\* quarter, no dots) to exactly itself, and encodes again to the same text.
C6_RoundTrip ==
    Representable(cval) =>
        /\ cpc # "failed"
        /\ cpc # "value" => cspec.ok
        /\ cpc \in {"decoded", "reencoded"} => (cdec.ok /\ cdec.val = cval)
        /\ cpc = "reencoded" => (cspec2.ok /\ cspec2.val = cspec.val)

C6_Witness ==
    /\ cpc = "reencoded"
    /\ cval = <<5, 2>>
    /\ cspec.val = <<"2", "+", "8">>
    /\ cdec.val = <<5, 2>>

\* C7: a positive duration that is not representable makes fraction_to_spec
\* fail; it returns no specifier.
C7_UnrepresentableFails ==
    (cpc # "value" /\ cval[1] > 0 /\ ~Representable(cval)) => ~cspec.ok

\* C8: the specifier of a representable duration has the fewest possible
\* terms and names its denominators in non-decreasing order.
C8_MinimalTerms ==
    (cpc # "value" /\ Representable(cval)) =>
        /\ cspec.ok
        /\ \A i \in 1..Len(SplitPlus(cspec.val)) : SplitPlus(cspec.val)[i] # <<>>
        /\ LET dens == TermsOf(cspec.val)
           IN  /\ \A i \in 1..Len(dens) : dens[i] \in NoteValues
               /\ Len(dens) = MinTermsTable[Sixteenths(cval)]
               /\ \A i \in 1..(Len(dens) - 1) : dens[i] <= dens[i + 1]

C8_Witness ==
    /\ cpc = "encoded"
    /\ cval = <<7, 4>>
    /\ cspec.val = <<"4", "+", "8", "+", "1", "6">>

\* a '+'-separated term of the text is empty or names no note value
HasBadTerm(text) ==
    /\ text # <<>>
    /\ \E i \in 1..Len(SplitPlus(text)) :
          \/ SplitPlus(text)[i] = <<>>
          \/ IntOf(SplitPlus(text)[i]) \notin NoteValues

\* C9: a token whose duration text has a term that is not one of 1, 2, 4, 8,
\* 16, 32, 64 makes the parse fail and produces no event.
C9_BadTermRejected ==
    (ppc # "token" /\ HasBadTerm(tokDur)) => (ppc = "raised" /\ events = <<>>)

\* ------------------------------------------------------------- fold claims
\* C10: with low <= high a normal return gives a pitch within [low, high];
\* the call raises when low > high, and never returns a pitch outside 0..127.
C10_FoldWithinBounds ==
    (fpc # "call" /\ fbounds # NoBounds) =>
        /\ (fpc = "returned" /\ fbounds[1] <= fbounds[2])
              => (fbounds[1] <= fres.val[1] /\ fres.val[1] <= fbounds[2])
        /\ fbounds[1] > fbounds[2] => fpc = "raised"
        /\ fpc = "returned" => (0 <= fres.val[1] /\ fres.val[1] <= MaxMidi)

\* C20: with low <= high a normal return gives a pitch that differs from the
\* input by a multiple of 12, and the wasFolded flag is true exactly when the
\* returned pitch differs from the input pitch.
C20_FoldFlagAndPitchClass ==
    (fpc = "returned" /\ fbounds # NoBounds /\ fbounds[1] <= fbounds[2]) =>
        /\ (fres.val[1] - fmidi) % 12 = 0
        /\ fres.val[2] <=> (fres.val[1] # fmidi)

\* ---------------------------------------------------------- extract claims
\* the time points of the notes and rests taken from the stream
ScoreTimes == {<<0, 1>>} \cup {seen[i].start : i \in 1..Len(seen)}
                         \cup {seen[i].end : i \in 1..Len(seen)}

\* the pitches that sound over the whole of [from, to)
HeardOver(from, to) ==
    UNION {seen[i].pitches : i \in {j \in 1..Len(seen) :
              FracGeq(from, seen[j].start) /\ FracGeq(seen[j].end, to)}}

ColonOf(text) == CHOOSE i \in 1..Len(text) : text[i] = ":"
NamedBy(text) ==
    {SplitPlus(SubSeq(text, 1, ColonOf(text) - 1))[i] :
        i \in 1..Len(SplitPlus(SubSeq(text, 1, ColonOf(text) - 1)))}
SpecBy(text) == SubSeq(text, ColonOf(text) + 1, Len(text))

\* the quarter lengths the terms of a specifier add up to
RECURSIVE TermsQuarters(_, _)
TermsQuarters(terms, i) ==
    IF i > Len(terms) THEN <<0, 1>>
    ELSE FracAdd(Frac(4, IntOf(terms[i])), TermsQuarters(terms, i + 1))
QuartersOf(spec) ==
    IF spec = <<>> THEN <<0, 1>> ELSE TermsQuarters(SplitPlus(spec), 1)

RECURSIVE EventsQuarters(_, _)
EventsQuarters(evs, i) ==
    IF i > Len(evs) THEN <<0, 1>>
    ELSE FracAdd(QuartersOf(SpecBy(evs[i])), EventsQuarters(evs, i + 1))

\* C19: extract_events emits one event per pair of consecutive time points
\* (0 and every start and end, ascending); the durations sum to the last time
\* point; each event names exactly the pitches that sound over its interval,
\* or R when there is none; no count of active occurrences goes negative.
C19_EventsCoverTimeline ==
    /\ ~underflow
    /\ \A midi \in DOMAIN active : active[midi] > 0
    /\ epc = "returned" =>
          LET times == SortedTimes(ScoreTimes)
          IN  /\ Len(score_events) = Len(times) - 1
              /\ EventsQuarters(score_events, 1) = times[Len(times)]
              /\ \A i \in 1..Len(score_events) :
                    NamedBy(score_events[i]) =
                        IF HeardOver(times[i], times[i + 1]) = {}
                        THEN {<<"R">>}
                        ELSE {midi_to_note_name(midi) :
                                 midi \in HeardOver(times[i], times[i + 1])}

\* -------------------------------------------------------- transpose claims
\* the penalty of shift s as the claim states it
ClaimPenalty(s) ==
    Max(0, SetMin(tmap) - (SetMin(tpiece) + s))
        + Max(0, (SetMax(tpiece) + s) - SetMax(tmap))

\* C11: with no override and non-empty pitch sets the returned shift is in
\* [-60, 60], has minimal penalty, the smallest absolute value among the
\* minimal ones and is the negative one of a tie +a/-a; it is 0 when the piece
\* lies inside the mapping's range.  An override is returned unchanged and an
\* empty piece or mapping gives 0.
C11_BestShift ==
    tpc = "returned" =>
        IF tmanual # None THEN tres = tmanual[1]
        ELSE IF tpiece = {} \/ tmap = {} THEN tres = 0
        ELSE /\ tres \in (-MaxShift)..MaxShift
             /\ \A s \in (-MaxShift)..MaxShift :
                   /\ ClaimPenalty(tres) <= ClaimPenalty(s)
                   /\ ClaimPenalty(s) = ClaimPenalty(tres) =>
                         /\ Abs(tres) <= Abs(s)
                         /\ Abs(s) = Abs(tres) => tres <= s
             /\ (SetMin(tmap) <= SetMin(tpiece) /\ SetMax(tpiece) <= SetMax(tmap))
                   => tres = 0

C11_Witness ==
    /\ tpc = "returned"
    /\ tmanual = None
    /\ tpiece = {100, 127}
    /\ tmap = {48, 60}
    /\ ClaimPenalty(-MaxShift) = ClaimPenalty(tres)
    /\ tres = -52

\* ------------------------------------------------------- note name claims
\* C12: for every pitch number m in 0..127 the name midi_to_note_name gives
\* is read back by note_name_to_midi, without error, as m.
C12_NameRoundTrip ==
    (npc = "done" /\ nin[1] = "midi") => nres = Returned(nin[2])

\* semitoneIndex of a natural letter
NaturalSemitone(l) ==
    CASE l = "C" -> 0 [] l = "D" -> 2 [] l = "E" -> 4 [] l = "F" -> 5
      [] l = "G" -> 7 [] l = "A" -> 9 [] l = "B" -> 11

\* letter + 'b' + octave
IsFlatSpelling(t) ==
    /\ Len(t) >= 3
    /\ t[1] \in LetterChars
    /\ t[2] = "b"
    /\ \A i \in 3..Len(t) : IsDigit(t[i])

\* C13: norm_note maps every flat spelling letter + 'b' + octave to a name
\* without 'b' whose pitch number is one semitone below the pitch number of
\* the letter's natural at that octave.
C13_FlatIsSemitoneBelow ==
    (npc = "done" /\ nin[1] = "raw" /\ IsFlatSpelling(nin[2])) =>
        /\ nname.ok
        /\ \A i \in 1..Len(nname.val) : nname.val[i] # "b"
        /\ nres = Returned(12 * (IntOf(SubSeq(nin[2], 3, Len(nin[2]))) + 1)
                             + NaturalSemitone(UpperChar(nin[2][1])) - 1)
\* ----------------------------------------------------------- parser claims
\* header assignments with a usable value, lane switches, and note tokens
\* written as the token grammar allows
WellFormedTokens ==
    {t \in SongTokens :
        t.kind = "note" => \A i \in 1..Len(t.atoms) : t.atoms[i][1] \in AtomLetters}

NoteCount(l) == Cardinality({i \in 1..Len(l.toks) : l.toks[i].kind = "note"})

\* C14: a body line that mixes header assignments, lane switches and note
\* tokens in any order, separated by blanks, "|" or ",", parses without error,
\* and every note token of it produces one event.
C14_MixedLineParses ==
    (/\ inBody
     /\ line # NoLine
     /\ \A i \in 1..Len(line.toks) : line.toks[i] \in WellFormedTokens)
    => /\ spc # "raised"
       /\ spc = "body" => Len(song) - lineEv = NoteCount(line)

\* C16: every event of a successful parse_song has a duration above zero and
\* a repeat count of at least 1.
C16_PositiveEvents ==
    spc = "returned" =>
        \A i \in 1..Len(song) : song[i].dur[1] > 0 /\ song[i].rep >= 1

\* the header field a header token assigns
KeyField(key) ==
    LET k == Upper(key)
    IN  CASE k = <<"B", "P", "M">> -> "bpm"
          [] k = <<"T", "E", "M", "P", "O">> -> "bpm"
          [] k = <<"U", "N", "I", "T">> -> "unit"
          [] k = <<"H", "O", "L", "D">> -> "hold"
          [] k = <<"S", "T", "A", "G", "G", "E", "R">> -> "stagger"
          [] k = <<"R", "E", "P">> -> "rep"

HeaderFields == {"bpm", "unit", "hold", "stagger", "rep"}

\* the number a header or attribute value text stands for
ValueOf(field, text) ==
    IF field \in {"hold", "stagger"} THEN ParseFloat(text).val
    ELSE ParseInt(text).val

\* the token's own attribute k if it has one, else the value in effect
OwnOr(t, k, field, inEffect) ==
    IF \E i \in 1..Len(t.attrs) : t.attrs[i][1] = k
    THEN ValueOf(field, t.attrs[CHOOSE i \in 1..Len(t.attrs) : t.attrs[i][1] = k][2])
    ELSE inEffect

\* seconds of the terms of a duration text at bpm, from the i-th term on
RECURSIVE TermsSeconds(_, _, _)
TermsSeconds(terms, i, bpm) ==
    IF i > Len(terms) THEN <<0, 1>>
    ELSE FracAdd(FracMul(FracDiv(60, bpm), Frac(4, IntOf(terms[i]))),
                 TermsSeconds(terms, i + 1, bpm))

\* the seconds a note token lasts with bpm and unit in effect
SecondsOf(t, bpm, unit) ==
    LET plain == IF t.dur = <<>> THEN FracMul(FracDiv(60, bpm), FracDiv(4, unit))
                 ELSE TermsSeconds(SplitPlus(t.dur), 1, bpm)
    IN  IF t.dots = 0 THEN plain
        ELSE IF t.dots = 1 THEN FracMul(plain, <<3, 2>>)
        ELSE FracMul(plain, <<9, 4>>)

\* the token a step of the parser takes: the one token of a line taken whole
\* as a header, or the next token of the line in hand
TakenToken ==
    IF spc = "tokens" THEN line.toks[tokI] ELSE line'.toks[1]

C15_Step ==
    /\ IsPrefix(song, song')
    /\ Len(song') = Len(song) + 1 =>
          LET t == line.toks[tokI]
              e == song'[Len(song')]
          IN  /\ spc = "tokens"
              /\ Render(t) = tokens[1]
              /\ t.kind = "note"
              /\ e.dur = SecondsOf(t, state.bpm, state.unit)
              /\ e.hold = OwnOr(t, <<"h">>, "hold", state.hold)
              /\ e.stagger = OwnOr(t, <<"s", "t">>, "stagger", state.stagger)
              /\ e.rep = OwnOr(t, <<"r", "e", "p">>, "rep", state.rep)
              /\ state' = state
    /\ \A f \in HeaderFields :
          state'[f] # state[f] =>
              /\ spc \in {"header", "body", "tokens"}
              /\ TakenToken.kind = "header"
              /\ KeyField(TakenToken.key) = f
              /\ state'[f] = ValueOf(f, TakenToken.val)
              /\ song' = song
    /\ (/\ spc = "tokens"
        /\ spc' # "raised"
        /\ line.toks[tokI].kind = "header"
        /\ Render(line.toks[tokI]) = tokens[1])
       => state'[KeyField(line.toks[tokI].key)]
              = ValueOf(KeyField(line.toks[tokI].key), line.toks[tokI].val)

\* C15: an event's duration, hold, stagger and repeat count are those of its
\* token's position: its own attribute if it has one, else the header value
\* in effect there, the duration from the tempo and unit in effect; no later
\* step changes an event, and attributes never change the header values.
C15_ResolvedAtPosition == [][C15_Step]_vars

C15_Witness ==
    /\ spc = "returned"
    /\ Len(song) = 2
    /\ song[1].rep = 1
    /\ state.rep = 2
    /\ song[2].rep = 3
    /\ song[2].dur = <<1, 4>>
\* ------------------------------------------------ scheduler claims, part 2
\* the chord names a rest atom together with at least one pitch
RestAmongPitches(e) ==
    /\ \E i \in DOMAIN e.notes : e.notes[i] = "R"
    /\ \E i \in DOMAIN e.notes : e.notes[i] # "R"

\* the calls of seq with a sleep of gap between consecutive ones, if gap > 0
RECURSIVE Strummed(_, _)
Strummed(seq, gap) ==
    IF Len(seq) <= 1 \/ gap <= 0 THEN seq
    ELSE <<Head(seq), Sleep(gap)>> \o Strummed(Tail(seq), gap)

\* what one slot of a chord of pitches ns, all mapped, does: presses, hold,
\* releases, rest of the slot
SlotTrace(e, ns, m) ==
    LET k == Len(ns)
        rest == RestOf(e, UsedHold(e))
    IN  Strummed([i \in 1..k |-> Down(MapGet(m, ns[i]))], e.stagger)
        \o <<Sleep(HoldSleep(UsedHold(e)))>>
        \o Strummed([i \in 1..k |-> Up(MapGet(m, ns[k + 1 - i]))], e.stagger)
        \o (IF rest > 0 THEN <<Sleep(rest)>> ELSE <<>>)

\* what an event with the chord ns, a chord of pitches only, does
ChordTrace(e, ns, m) ==
    IF \E i \in 1..Len(ns) : ns[i] \notin DOMAIN m THEN <<Sleep(e.dur)>>
    ELSE Repeat(SlotTrace(e, ns, m), RepOf(e))

\* C17: a chord that names R together with pitches is played as the same
\* chord without the R: the key-downs, key-ups and sleeps are, in order,
\* those of the chord of its pitches alone (as they are for a chord that has
\* no R), and the missing-mapping decision never counts or reports R.
C17_RestAtomIgnored ==
    (mode # "none" /\ \E i \in DOMAIN ev.notes : ev.notes[i] # "R") =>
        /\ IsPrefix(trace, ChordTrace(ev, Sounding(ev.notes), mapping))
        /\ pc = "event_end" => trace = ChordTrace(ev, Sounding(ev.notes), mapping)
        /\ mode = "missing" <=> Unmapped(ev, mapping) # {}
        /\ \A i \in 1..Len(MissingNotes(ev.notes, mapping)) :
              MissingNotes(ev.notes, mapping)[i] # "R"

C17_Witness ==
    /\ pc = "event_end"
    /\ mode = "played"
    /\ ev.notes = <<"C4", "R", "G4">>
    /\ ev.stagger > 0
    /\ ev.rep = 2
    /\ Len(trace) = 16

\* number of calls op(k) among the calls of seq
CallCount(seq, op, k) ==
    Cardinality({i \in 1..Len(seq) : seq[i] = <<op, k>>})

\* number of atoms of the event's chord that are played on key k
Multiplicity(e, m, k) ==
    Cardinality({i \in DOMAIN e.notes : e.notes[i] # "R" /\ MapGet(m, e.notes[i]) = k})

AllKeys == {FullMapping[n] : n \in Pitches}

\* C18: in a run that is not interrupted no key is held at an event
\* boundary; over an event every key gets as many key-ups as key-downs,
\* repeat count times its multiplicity in the chord for a played event and
\* none for a rest or an event with a missing note; no key-up comes before
\* its key-down.
C18_BalancedKeys ==
    pc # "aborted" =>
        /\ pc \in {"fetch", "event_end", "done"} => held = {}
        /\ \A k \in AllKeys :
              /\ \A n \in 0..Len(acts) :
                    CallCount(SubSeq(acts, 1, n), "up", k)
                        <= CallCount(SubSeq(acts, 1, n), "down", k)
              /\ pc = "event_end" =>
                    /\ CallCount(acts, "up", k) = CallCount(acts, "down", k)
                    /\ CallCount(acts, "down", k) =
                          IF ev.notes # <<"R">> /\ Unmapped(ev, mapping) = {}
                          THEN RepOf(ev) * Multiplicity(ev, mapping, k)
                          ELSE 0

C18_Witness ==
    /\ pc = "event_end"
    /\ mode = "played"
    /\ ev.notes = <<"C4", "E4", "C4">>
    /\ ev.rep = 2
    /\ CallCount(acts, "down", "q") = 4
    /\ CallCount(acts, "up", "q") = 4
    /\ held = {}
====
